---- MODULE Spec2Model ----
(***************************************************************************)
(* A model of cargo-tarpaulin's coverage driver (src/src/lib.rs: run,      *)
(* trace, launch_tarpaulin, get_test_coverage, collect_coverage), of the  *)
(* ptrace tracer loop of src/src/main.rs (collect_coverage) and of the     *)
(* branch context of src/src/branching/mod.rs (is_branch, contains).       *)
(*                                                                         *)
(* The driver is a sequential program; its call stack is flattened into    *)
(* the program counter pc.  Everything outside src/ (cargo::get_tests,     *)
(* fork, generate_tracemap, the state machine's step, report_coverage,     *)
(* TraceMap::merge / dedup) is an input whose outcome is drawn from a      *)
(* small set at the step where the code calls it.                          *)
(* A behaviour is the run of one process: at fork() it goes on as the      *)
(* parent or as the child, which runs the same driver code on a copy of   *)
(* the state until execute_test replaces its image.                        *)
(***************************************************************************)
EXTENDS Integers, Sequences, FiniteSets, TLC

(* ------------------------------ bounds -------------------------------- *)

\* Longest configuration list handed to run()/trace().
MaxConfigs == 2

\* Most test executables cargo::get_tests returns for one configuration.
MaxExes == 2

\* Most addresses tracer::generate_tracer_data returns (main.rs).
MaxTraces == 2

\* Source lines that carry a trace (the keys of a TraceMap).  merge and dedup
\* work key by key, so one key shows what they do.
Lines == {1}

\* Exit codes a test process ends with: success and one failure code.
ExitCodes == {0, 1}

(* ------------------------------ values -------------------------------- *)

\* Errors are <<kind, detail>>; NoError is the Ok(()) of `failure`.
NoError == <<"Ok", "">>
TestFailed == <<"TestFailed", "">>
BuildErrors == {<<"BuildFailure", "compile">>, <<"BuildFailure", "manifest">>}
ForkError == <<"TestCoverage", "Failed to run test">>
ExecError == <<"Internal", "execute">>
TracemapError == <<"IO", "generate_tracemap">>
StepError == <<"StateMachine", "step">>
ReportError == <<"Report", "report_coverage">>

ConfigNames == {"report", "cfg"}
Configs == [name : ConfigNames, run_ignored : BOOLEAN]
RunTypes == {"Tests", "Benchmarks"}
Exes == [run_type : RunTypes]

SeqsUpTo(S, n) == UNION {[1..k -> S] : k \in 0..n}

(* ------------------------------ TraceMap ------------------------------ *)

\* TraceMap::new(): no line has a hit.
NewTraceMap == [l \in Lines |-> 0]

\* TraceMap::merge: hit counts of the same key are summed.
Merge(a, b) == [l \in Lines |-> a[l] + b[l]]

\* TraceMap::dedup: one logical trace per line, hit count 1 if any hit.
Dedup(m) == [l \in Lines |-> IF m[l] > 0 THEN 1 ELSE 0]

\* i32 bitwise OR on the non-negative exit codes.
RECURSIVE BitOr(_, _)
BitOr(a, b) ==
    IF a = 0 THEN b
    ELSE IF b = 0 THEN a
    ELSE (IF (a % 2 = 1) \/ (b % 2 = 1) THEN 1 ELSE 0) + 2 * BitOr(a \div 2, b \div 2)

\* Result values of launch_tarpaulin / get_test_coverage / collect_coverage.
OkRes(t, r) == [ok |-> TRUE, err |-> NoError, t |-> t, code |-> r]
ErrRes(e) == [ok |-> FALSE, err |-> e, t |-> NewTraceMap, code |-> 0]


(* --------------------- the state machine (statemachine.rs) ------------- *)

\* TestState values: Init, Running, Stopped and the terminal End(code).
TState(k, c) == [kind |-> k, code |-> c]
StartState == TState("Init", 0)

\* TestState::is_finished: End is the only terminal state.
IsFinished(s) == s.kind = "End"

\* A hit at a line that has none yet (the original word is restored after a
\* hit, so an address traps once).
HitOnce(tr) == {[tr EXCEPT ![l] = 1] : l \in {k \in Lines : tr[k] = 0}}

StepOk(s, tr) == [ok |-> TRUE, state |-> s, traces |-> tr]
StepErr(s, tr) == [ok |-> FALSE, state |-> s, traces |-> tr]

\* TestState::step: the outcomes of one wait-and-react cycle.
StepResults(s, tr) ==
    {StepErr(s, tr)} \cup
    (IF s.kind = "Init" THEN {StepOk(TState("Running", 0), tr)}
     ELSE IF s.kind = "Running"
       THEN {StepOk(TState("Stopped", 0), tr)}
            \cup {StepOk(TState("End", c), tr) : c \in ExitCodes}
     ELSE IF s.kind = "Stopped"
       THEN {StepOk(TState("Running", 0), t2) : t2 \in HitOnce(tr) \cup {tr}}
            \cup {StepOk(TState("End", c), tr) : c \in ExitCodes}
     ELSE {})

\* RunError's Display, as used by e.to_string().
ErrToString(e) ==
    CASE e = TracemapError -> "IO: generate_tracemap"
      [] e = StepError -> "StateMachine: step"
      [] OTHER -> e[2]

(* ------------------ branching/mod.rs: the branch context --------------- *)

\* Most keys of one BranchAnalysis.
MaxKeys == 2

\* Largest line number (usize) of a range bound or of a query.
MaxLine == 2

BranchLines == 0..MaxLine

\* LineRange, lines 48-53: any two usize bounds, also start >= end.
LineRanges == [start : BranchLines, end : BranchLines]

\* Branches, lines 37-43: the arms of a branch.  Two values, with arm ranges
\* that are not the key ranges.
BranchesValues ==
    {[ranges |-> <<>>, implicit_default |-> TRUE],
     [ranges |-> <<[start |-> 0, end |-> MaxLine + 1]>>, implicit_default |-> FALSE]}

\* BranchAnalysis, lines 21-26: a map from LineRange keys to Branches; the
\* keys of one map get the same arms here.
BranchAnalyses ==
    {[branches |-> [k \in K |-> v]] :
        K \in {X \in SUBSET LineRanges : Cardinality(X) <= MaxKeys},
        v \in BranchesValues}

\* The analyses of the second file: no key, and one key over every line.
OtherAnalyses ==
    {[branches |-> [k \in K |-> v]] :
        K \in {{}, {[start |-> 0, end |-> MaxLine + 1]}},
        v \in {[ranges |-> <<>>, implicit_default |-> TRUE]}}

Paths == {"a.rs", "b.rs", "c.rs"}

\* BranchContext, lines 4-7: "a.rs" with any analysis or none, "b.rs" with one
\* of OtherAnalyses or none, "c.rs" never.
BranchContexts ==
    {[files |-> [p \in D |-> IF p = "a.rs" THEN a ELSE b]] :
        D \in SUBSET {"a.rs", "b.rs"}, a \in BranchAnalyses, b \in OtherAnalyses}

\* A range whose end is one of its lines.
ContainsInclusive(r, line) == line >= r.start /\ line <= r.end

\* LineRange::contains, lines 57-59.
Contains(r, line) == line >= r.start /\ line < r.end

\* An analysis that looks at the arms' ranges instead of the keys.
IsBranchByArms(a, line) ==
    \E k \in DOMAIN a.branches :
        \E i \in 1..Len(a.branches[k].ranges) :
            Contains(a.branches[k].ranges[i], line)

\* BranchAnalysis::is_branch, lines 30-32: any key contains the line.
IsBranch(a, line) == \E k \in DOMAIN a.branches : Contains(k, line)

\* A context that answers for a missing path from the files it has.
ContextIsBranchAnyFile(ctx, path, line) ==
    IF path \in DOMAIN ctx.files
      THEN IsBranch(ctx.files[path], line)
      ELSE \E p \in DOMAIN ctx.files : IsBranch(ctx.files[p], line)

\* BranchContext::is_branch, lines 11-16.
ContextIsBranch(ctx, path, line) ==
    IF path \in DOMAIN ctx.files
      THEN IsBranch(ctx.files[path], line)
      ELSE FALSE

VARIABLES
    context,        \* the BranchContext
    context0,       \* history: the BranchContext as it was built
    call            \* history: the last query, its arguments and its answer

branchVars == <<context, context0, call>>

NoCall == [fn |-> "none"]
EmptyContext == [files |-> <<>>]

\* No branch context is in use.
BranchIdle ==
    /\ context = EmptyContext
    /\ context0 = EmptyContext
    /\ call = NoCall

\* A branch context has been built by the source analysis.
BranchInit ==
    /\ context \in BranchContexts
    /\ context0 = context
    /\ call = NoCall

(* ------------------------------- state -------------------------------- *)

VARIABLES
    configs,        \* run()/trace(): the configuration list
    pc,             \* position of the driver
    ci,             \* trace(): index of the loop over configs
    tracemap,       \* trace(): the run-level TraceMap
    ret,            \* trace(): accumulated return code
    failure,        \* trace(): the first remembered failure
    traceResult,    \* what trace() returned
    lres,           \* what launch_tarpaulin returned, until trace() matches on it
    result,         \* launch_tarpaulin: the configuration's TraceMap
    return_code,    \* launch_tarpaulin: the configuration's return code
    executables,    \* launch_tarpaulin: what cargo::get_tests returned
    ei,             \* launch_tarpaulin: index of the loop over executables
    ignored,        \* get_test_coverage: the ignored flag of the current call
    traces,         \* collect_coverage: the executable's TraceMap
    state,          \* collect_coverage: the TestState
    ret_code,       \* collect_coverage: the exit code
    stepErr,        \* collect_coverage: the last step returned an error
    ri,             \* run(): index of the loop over configs
    reported,       \* run(): the reported flag
    reports,        \* history: the report_coverage calls, <<config index, map>>
    runResult,      \* what run() returned
    launchLog,      \* history: one record per launch_tarpaulin call trace() matched
    cur,            \* history: the launch_tarpaulin call in progress
    nonZeroExit,    \* history: some traced test process exited non-zero
    mapLog,         \* history: dedups of, and merges into, the maps in use
    unreaped,       \* history: forked test processes nobody has waited for
    \* main.rs, collect_coverage and the traced child:
    tpc,            \* position of the tracer
    traces_main,    \* the trace list of tracer::generate_tracer_data
    pi,             \* index of the planting loop
    child,          \* the traced child, as the kernel sees it
    mem,            \* the child's text: the word at each address
    initCalls,      \* history: the ptrace requests made before the hit loop
    seen,           \* history: the wait statuses the tracer got
    trapResumed     \* history: trace addresses where a trap stop was resumed

driverVars == <<configs, pc, ci, tracemap, ret, failure, traceResult, lres, result,
                return_code, executables, ei, ignored, traces, state, ret_code,
                stepErr, ri, reported, reports, runResult, launchLog, cur,
                nonZeroExit, mapLog, unreaped>>

tracerVars == <<tpc, traces_main, pi, child, mem, initCalls, seen, trapResumed>>

Pending == <<"Pending", "">>

\* cur: what get_tests returned to the call (its error, or Ok), whether the
\* call forked, and the get_test_coverage calls made in its loop over the
\* executables, as <<index of the executable, ignored flag>>.
NewCur == [build |-> Pending, forked |-> FALSE, calls |-> <<>>]

traceVars == <<tracemap, ret, failure>>
launchVars == <<result, return_code, executables, ei, ignored>>
collectVars == <<traces, state, ret_code, stepErr>>
runVars == <<ri, reported, reports, runResult>>
histVars == <<launchLog, cur, nonZeroExit, mapLog, unreaped>>

\* mapLog, for the run-level map of trace() (run) and for the map of the
\* launch_tarpaulin call in progress (cfg): how often the map was
\* deduplicated, and whether something was merged into it after a dedup.
NewMapLog == [dedups |-> 0, late |-> FALSE]
NewMapLogs == [run |-> NewMapLog, cfg |-> NewMapLog]
LogMerge(l) == [l EXCEPT !.late = (l.late \/ l.dedups > 0)]
LogDedup(l) == [l EXCEPT !.dedups = l.dedups + 1]

DriverLocals ==
    /\ ci = 1
    /\ tracemap = NewTraceMap
    /\ ret = 0
    /\ failure = NoError
    /\ traceResult = ErrRes(Pending)
    /\ lres = ErrRes(Pending)
    /\ result = NewTraceMap
    /\ return_code = 0
    /\ executables = <<>>
    /\ ei = 1
    /\ ignored = FALSE
    /\ traces = NewTraceMap
    /\ state = StartState
    /\ ret_code = 0
    /\ stepErr = FALSE
    /\ ri = 1
    /\ reported = FALSE
    /\ reports = <<>>
    /\ runResult = Pending
    /\ launchLog = <<>>
    /\ cur = NewCur
    /\ nonZeroExit = FALSE
    /\ mapLog = NewMapLogs
    /\ unreaped = 0

\* run(configs) is called.
DriverInit ==
    /\ configs \in SeqsUpTo(Configs, MaxConfigs)
    /\ pc = "trace_loop"
    /\ DriverLocals

\* The driver of lib.rs is not running.
DriverIdle ==
    /\ configs = <<>>
    /\ pc = "idle"
    /\ DriverLocals

(* --------------------------- trace(), lines 29-57 ---------------------- *)

Cfg == configs[ci]
Exe == executables[ei]

\* A match that counts a failed configuration as a failed test.
TraceMatchErrSetsRet(res, tm, r, f) ==
    IF res.ok
      THEN [tracemap |-> Merge(tm, res.t), ret |-> BitOr(r, res.code), failure |-> f]
      ELSE [tracemap |-> tm, ret |-> BitOr(r, 1),
            failure |-> IF f = NoError THEN res.err ELSE f]

\* trace(), lines 38-49: the match on launch_tarpaulin's result.
TraceMatch(res, tm, r, f) ==
    IF res.ok
      THEN [tracemap |-> Merge(tm, res.t), ret |-> BitOr(r, res.code), failure |-> f]
      ELSE [tracemap |-> tm, ret |-> r,
            failure |-> IF f = NoError THEN res.err ELSE f]

\* A loop that stops at the first failing configuration.
NextConfigStopsOnError(i, res) == IF res.ok THEN i + 1 ELSE Len(configs) + 1

\* trace(), line 34: the loop goes on to the next configuration whatever
\* launch_tarpaulin returned.
NextConfig(i, res) == i + 1

\* trace(), lines 52-56: the value returned (the remembered failure f is not
\* read).
TraceReturn(r, f, tm) == IF r = 0 THEN OkRes(tm, 0) ELSE ErrRes(TestFailed)

\* launch_tarpaulin's loop over the executables is left.
LoopLeft == cur' = [cur EXCEPT !.calls = <<>>]

\* launch_tarpaulin returns res to trace(); its locals go out of scope.
LaunchReturns(res) ==
    /\ lres' = res
    /\ pc' = "launch_return"
    /\ result' = NewTraceMap
    /\ return_code' = 0
    /\ executables' = <<>>
    /\ ei' = 1
    /\ ignored' = FALSE
    /\ traces' = NewTraceMap
    /\ state' = StartState
    /\ ret_code' = 0
    /\ UNCHANGED <<ci, traceVars, launchLog>>

\* A test that takes only some of the configurations named "report".
IsReportOnlyUnlessIgnored(cfg) == cfg.name = "report" /\ ~cfg.run_ignored

\* trace(), line 35: the test that makes a configuration a report-only pass.
IsReportOnly(cfg) == cfg.name = "report"

\* trace(), lines 35-37: a configuration named "report" is skipped.
TraceSkipReport ==
    /\ pc = "trace_loop"
    /\ ci <= Len(configs)
    /\ IsReportOnly(Cfg)
    /\ ci' = ci + 1
    /\ UNCHANGED <<branchVars, tracerVars, configs, pc, traceVars, traceResult, lres, launchVars,
                   collectVars, runVars, histVars>>

\* trace(), line 38, and launch_tarpaulin, lines 87-89: the call starts.
TraceLaunch ==
    /\ pc = "trace_loop"
    /\ ci <= Len(configs)
    /\ ~IsReportOnly(Cfg)
    /\ pc' = "get_tests"
    /\ result' = NewTraceMap
    /\ return_code' = 0
    /\ cur' = NewCur
    /\ mapLog' = [mapLog EXCEPT !.cfg = NewMapLog]
    /\ UNCHANGED <<branchVars, tracerVars, configs, ci, traceVars, traceResult, lres, executables, ei,
                   ignored, collectVars, runVars, launchLog, nonZeroExit, unreaped>>

\* trace(), lines 38-49: launch_tarpaulin has returned; merge or remember the
\* failure, and go on with the loop.
TraceLaunched ==
    /\ pc = "launch_return"
    /\ LET m == TraceMatch(lres, tracemap, ret, failure) IN
         /\ tracemap' = m.tracemap
         /\ ret' = m.ret
         /\ failure' = m.failure
    /\ ci' = NextConfig(ci, lres)
    /\ pc' = "trace_loop"
    /\ launchLog' = Append(launchLog, [cfg |-> ci, ok |-> lres.ok, t |-> lres.t])
    /\ lres' = ErrRes(Pending)
    /\ cur' = NewCur
    /\ stepErr' = FALSE
    /\ mapLog' = [run |-> IF lres.ok THEN LogMerge(mapLog.run) ELSE mapLog.run,
                  cfg |-> NewMapLog]
    /\ UNCHANGED <<branchVars, tracerVars, configs, traceResult, launchVars, traces, state, ret_code,
                   runVars, nonZeroExit, unreaped>>

\* A trace() that returns its map as the merges left it.
TraceDedupSkipped(tm, l) == [tracemap |-> tm, log |-> l]

\* trace(), line 51: tracemap.dedup(), after the loop over the configurations.
TraceDedup(tm, l) == [tracemap |-> Dedup(tm), log |-> LogDedup(l)]

\* trace(), lines 51-56: dedup and return.
TraceFinish ==
    /\ pc = "trace_loop"
    /\ ci > Len(configs)
    /\ LET d == TraceDedup(tracemap, mapLog.run) IN
         /\ tracemap' = d.tracemap
         /\ traceResult' = TraceReturn(ret, failure, d.tracemap)
         /\ mapLog' = [mapLog EXCEPT !.run = d.log]
    /\ pc' = "run"
    /\ UNCHANGED <<branchVars, tracerVars, configs, ci, ret, failure, lres, launchVars, collectVars,
                   runVars, launchLog, cur, nonZeroExit, unreaped>>

(* --------------------- launch_tarpaulin, lines 80-108 ------------------ *)

\* cargo::get_tests: a build failure, or the list of test executables.
GetTestsResults ==
    {[ok |-> TRUE, err |-> NoError, exes |-> x] : x \in SeqsUpTo(Exes, MaxExes)}
    \cup {[ok |-> FALSE, err |-> e, exes |-> <<>>] : e \in BuildErrors}

\* A propagation that rewraps the build failure as a coverage error.
PropagateBuildWrapped(e) == <<"TestCoverage", e[2]>>

\* launch_tarpaulin, line 91: `?` hands the RunError of get_tests back as it is.
PropagateBuild(e) == e

\* launch_tarpaulin, line 91.
GetTests ==
    /\ pc = "get_tests"
    /\ \E out \in GetTestsResults :
         /\ cur' = [cur EXCEPT !.build = out.err]
         /\ IF out.ok
              THEN /\ executables' = out.exes
                   /\ ei' = 1
                   /\ ignored' = FALSE
                   /\ pc' = "exe_loop"
                   /\ UNCHANGED <<ci, traceVars, lres, result, return_code, traces,
                                  state, ret_code, launchLog>>
              ELSE LaunchReturns(ErrRes(PropagateBuild(out.err)))
    /\ UNCHANGED <<branchVars, tracerVars, configs, traceResult, stepErr, runVars, nonZeroExit,
                   mapLog, unreaped>>

\* launch_tarpaulin, line 93: the normal trace of the next executable.
LaunchNextExe ==
    /\ pc = "exe_loop"
    /\ ei <= Len(executables)
    /\ ignored' = FALSE
    /\ pc' = "get_test_coverage"
    /\ UNCHANGED <<branchVars, tracerVars, configs, ci, traceVars, traceResult, lres, result, return_code,
                   executables, ei, collectVars, runVars, histVars>>

\* launch_tarpaulin, lines 106-107: dedup and return Ok.
LaunchFinish ==
    /\ pc = "exe_loop"
    /\ ei > Len(executables)
    /\ LaunchReturns(OkRes(Dedup(result), return_code))
    /\ mapLog' = [mapLog EXCEPT !.cfg = LogDedup(mapLog.cfg)]
    /\ LoopLeft
    /\ UNCHANGED <<branchVars, tracerVars, configs, traceResult, stepErr, runVars, launchLog,
                   nonZeroExit, unreaped>>

\* The Option<(TraceMap, i32)> of get_test_coverage.
None == [some |-> FALSE, t |-> NewTraceMap, code |-> 0]
Some(t, r) == [some |-> TRUE, t |-> t, code |-> r]

\* A merge that takes a missing executable for a failed test.
LaunchMergeNoneFails(cov, res, rc) ==
    IF cov.some
      THEN [result |-> Merge(res, cov.t), return_code |-> BitOr(rc, cov.code)]
      ELSE [result |-> res, return_code |-> BitOr(rc, 1)]

\* launch_tarpaulin, lines 94-97 and 100-103: merge the coverage, if any.
LaunchMerge(cov, res, rc) ==
    IF cov.some
      THEN [result |-> Merge(res, cov.t), return_code |-> BitOr(rc, cov.code)]
      ELSE [result |-> res, return_code |-> rc]

\* A second trace for every run type.
RunIgnoredAnyType(cfg, exe, ign) == (~ign) /\ cfg.run_ignored

\* launch_tarpaulin, line 98: is the executable traced again with --ignored?
RunIgnoredToo(cfg, exe, ign) ==
    (~ign) /\ cfg.run_ignored /\ exe.run_type = "Tests"

\* get_test_coverage returned Ok(cov) to launch_tarpaulin, lines 93-104.
GtcOk(cov) ==
    LET m == LaunchMerge(cov, result, return_code)
        again == RunIgnoredToo(Cfg, Exe, ignored) IN
    /\ result' = m.result
    /\ return_code' = m.return_code
    /\ ignored' = again
    /\ ei' = IF again THEN ei ELSE ei + 1
    /\ pc' = IF again THEN "get_test_coverage" ELSE "exe_loop"
    /\ traces' = NewTraceMap
    /\ state' = StartState
    /\ ret_code' = 0
    /\ mapLog' = IF cov.some THEN [mapLog EXCEPT !.cfg = LogMerge(mapLog.cfg)]
                 ELSE mapLog
    /\ UNCHANGED <<ci, traceVars, lres, executables, launchLog>>

(* ---------------------- get_test_coverage, lines 111-141 --------------- *)

\* get_test_coverage, line 128: a collect_coverage error becomes TestCoverage.
WrapTestCoverage(e) == <<"TestCoverage", ErrToString(e)>>

\* fork(), line 125, as the process that goes on from it sees it: the parent
\* with its new child, the new child itself, or the parent after a failure.
ForkResults == {"Parent", "Child", "Err"}

\* get_test_coverage, lines 117-129 and 135-139: test.exists() asks the file
\* system when the call is made; then fork().  The model follows one process:
\* after a fork it goes on either as the parent or as the child, which has a
\* copy of the driver's state and no child of its own.
GetTestCoverage ==
    /\ pc = "get_test_coverage"
    /\ \E exists \in BOOLEAN, fork \in ForkResults :
         IF ~exists
           THEN /\ GtcOk(None)
                /\ cur' = [cur EXCEPT !.calls = Append(@, <<ei, ignored>>)]
                /\ UNCHANGED unreaped
           ELSE IF fork = "Parent"
             THEN /\ cur' = [cur EXCEPT !.forked = TRUE,
                                        !.calls = Append(@, <<ei, ignored>>)]
                  /\ unreaped' = unreaped + 1
                  /\ pc' = "generate_tracemap"
                  /\ UNCHANGED <<ci, traceVars, lres, launchVars, traces, state,
                                 ret_code, launchLog, mapLog>>
           ELSE IF fork = "Child"
             THEN /\ cur' = [cur EXCEPT !.forked = TRUE,
                                        !.calls = Append(@, <<ei, ignored>>)]
                  /\ unreaped' = 0
                  /\ pc' = "execute_test"
                  /\ UNCHANGED <<ci, traceVars, lres, launchVars, traces, state,
                                 ret_code, launchLog, mapLog>>
             ELSE /\ LaunchReturns(ErrRes(ForkError))
                  /\ LoopLeft
                  /\ UNCHANGED <<unreaped, mapLog>>
    /\ UNCHANGED <<branchVars, tracerVars, configs, traceResult, stepErr, runVars, nonZeroExit>>

\* The process image is replaced: the driver's locals are no more (they are
\* given their first values).
ImageReplaced ==
    /\ ci' = 1
    /\ tracemap' = NewTraceMap
    /\ ret' = 0
    /\ failure' = NoError
    /\ traceResult' = ErrRes(Pending)
    /\ lres' = ErrRes(Pending)
    /\ result' = NewTraceMap
    /\ return_code' = 0
    /\ executables' = <<>>
    /\ ei' = 1
    /\ ignored' = FALSE
    /\ traces' = NewTraceMap
    /\ state' = StartState
    /\ ret_code' = 0
    /\ stepErr' = FALSE
    /\ ri' = 1
    /\ reported' = FALSE
    /\ reports' = <<>>
    /\ runResult' = Pending
    /\ launchLog' = <<>>
    /\ cur' = NewCur
    /\ nonZeroExit' = FALSE
    /\ mapLog' = NewMapLogs
    /\ unreaped' = 0

\* process_handling::execute, called by execute_test, line 195: the process
\* image is replaced by the test ("exec", the call never returns), or the
\* call returns an error, or it returns Ok(()).
ExecuteResults == {"exec", "Err", "Ok"}

\* get_test_coverage, line 132: `?` hands execute_test's RunError back as it
\* is, not wrapped in TestCoverage.
PropagateExec(e) == e

\* get_test_coverage, lines 130-134, the child's side of fork: execute_test
\* replaces the image, so that nothing of the driver, code or data, is left
\* in this process; or it returns, and the child goes on as a driver of its
\* own: with the error, or with Ok(None).
ExecuteTest ==
    /\ pc = "execute_test"
    /\ \E out \in ExecuteResults :
         IF out = "exec"
           THEN /\ pc' = "exec"
                /\ ImageReplaced
           ELSE /\ IF out = "Err"
                     THEN /\ LaunchReturns(ErrRes(PropagateExec(ExecError)))
                          /\ LoopLeft
                          /\ UNCHANGED mapLog
                     ELSE GtcOk(None) /\ UNCHANGED cur
                /\ UNCHANGED <<traceResult, stepErr, runVars, nonZeroExit, unreaped>>
    /\ UNCHANGED <<branchVars, tracerVars, configs>>

(* ----------------------- collect_coverage, lines 144-166 --------------- *)

\* collect_coverage, line 151: `?` turns generate_tracemap's io::Error into a
\* RunError.
IoToRunError == TracemapError

\* collect_coverage, lines 150-154: generate the trace map and create the state
\* machine, or return the error.
GenerateTracemap ==
    /\ pc = "generate_tracemap"
    /\ \E generated \in BOOLEAN :
         IF generated
           THEN /\ traces' = NewTraceMap
                /\ state' = StartState
                /\ ret_code' = 0
                /\ pc' = "step"
                /\ UNCHANGED <<ci, traceVars, lres, launchVars, launchLog, cur>>
           ELSE LaunchReturns(ErrRes(WrapTestCoverage(IoToRunError))) /\ LoopLeft
    /\ UNCHANGED <<branchVars, tracerVars, configs, traceResult, stepErr, runVars, launchLog,
                   nonZeroExit, mapLog, unreaped>>

\* A loop that leaves End's code behind.
CollectAfterStepKeepsCode(s, rc) == [break |-> IsFinished(s), ret_code |-> rc]

\* collect_coverage, lines 157-162: what the loop does with the state a step
\* returned: leave the loop when it is finished, with End's code as ret_code.
CollectAfterStep(s, rc) ==
    [break |-> IsFinished(s),
     ret_code |-> IF IsFinished(s) /\ s.kind = "End" THEN s.code ELSE rc]

\* collect_coverage, line 156: `?` returns a step's error at once.
StepFailed(e) == [returns |-> TRUE, res |-> ErrRes(WrapTestCoverage(e))]

\* collect_coverage, lines 155-163: one turn of the loop.
Step ==
    /\ pc = "step"
    /\ \E out \in StepResults(state, traces) :
         IF ~out.ok
           THEN /\ stepErr' = TRUE
                /\ UNCHANGED <<nonZeroExit, unreaped>>
                /\ IF StepFailed(StepError).returns
                     THEN LaunchReturns(StepFailed(StepError).res) /\ LoopLeft
                     ELSE UNCHANGED <<pc, ci, traceVars, lres, launchVars, traces,
                                      state, ret_code, launchLog, cur>>
           ELSE LET a == CollectAfterStep(out.state, ret_code) IN
                /\ stepErr' = FALSE
                /\ nonZeroExit' = (nonZeroExit
                                   \/ (out.state.kind = "End" /\ out.state.code # 0))
                /\ unreaped' = IF out.state.kind = "End" THEN unreaped - 1
                               ELSE unreaped
                /\ state' = out.state
                /\ traces' = out.traces
                /\ ret_code' = a.ret_code
                /\ pc' = IF a.break THEN "collected" ELSE "step"
                /\ UNCHANGED <<ci, traceVars, lres, launchVars, launchLog, cur>>
    /\ UNCHANGED <<branchVars, tracerVars, configs, traceResult, runVars, mapLog>>

\* collect_coverage, line 165, and get_test_coverage, line 127: Ok((traces,
\* ret_code)) goes back to launch_tarpaulin as Ok(Some(..)).
CollectReturn ==
    /\ pc = "collected"
    /\ GtcOk(Some(traces, ret_code))
    /\ UNCHANGED <<branchVars, tracerVars, configs, traceResult, stepErr, runVars, launchLog, cur,
                   nonZeroExit, unreaped>>

(* ------------------------------ run(), lines 59-77 --------------------- *)

\* run(), lines 60-63: `?` on trace()'s result, then the choice of reports.
Run ==
    /\ pc = "run"
    /\ IF ~traceResult.ok
         THEN /\ runResult' = traceResult.err
              /\ pc' = "done"
         ELSE /\ runResult' = IF Len(configs) = 0 THEN NoError ELSE runResult
              /\ pc' = IF Len(configs) = 1 THEN "report_single"
                       ELSE IF Len(configs) # 0 THEN "report_loop"
                       ELSE "done"
    /\ ri' = 1
    /\ reported' = FALSE
    /\ UNCHANGED <<branchVars, tracerVars, configs, ci, traceVars, traceResult, lres, launchVars,
                   collectVars, reports, histVars>>

\* run(), line 62: the only configuration reports.
ReportSingle ==
    /\ pc = "report_single"
    /\ \E ok \in BOOLEAN :
         runResult' = IF ok THEN NoError ELSE ReportError
    /\ reports' = Append(reports, <<1, traceResult.t>>)
    /\ pc' = "done"
    /\ UNCHANGED <<branchVars, tracerVars, configs, ci, traceVars, traceResult, lres, launchVars,
                   collectVars, ri, reported, histVars>>

\* run(), lines 65-70: every configuration named "report" reports.
ReportLoop ==
    /\ pc = "report_loop"
    /\ ri <= Len(configs)
    /\ IF configs[ri].name = "report"
         THEN /\ reported' = TRUE
              /\ reports' = Append(reports, <<ri, traceResult.t>>)
              /\ \E ok \in BOOLEAN :
                   IF ok
                     THEN ri' = ri + 1 /\ UNCHANGED <<pc, runResult>>
                     ELSE /\ runResult' = ReportError
                          /\ pc' = "done"
                          /\ UNCHANGED ri
         ELSE /\ ri' = ri + 1
              /\ UNCHANGED <<pc, reported, reports, runResult>>
    /\ UNCHANGED <<branchVars, tracerVars, configs, ci, traceVars, traceResult, lres, launchVars,
                   collectVars, histVars>>

\* A run() that always reports with the first configuration after the loop.
NeedsDefaultReportAlways(rep) == TRUE

\* run(), line 71: `if !reported`.
NeedsDefaultReport(rep) == ~rep

\* run(), lines 71 and 76: after the loop.
ReportLoopEnd ==
    /\ pc = "report_loop"
    /\ ri > Len(configs)
    /\ pc' = IF NeedsDefaultReport(reported) THEN "report_default" ELSE "done"
    /\ runResult' = IF NeedsDefaultReport(reported) THEN runResult ELSE NoError
    /\ UNCHANGED <<branchVars, tracerVars, configs, ci, traceVars, traceResult, lres, launchVars,
                   collectVars, ri, reported, reports, histVars>>

\* run(), line 72: no configuration is named "report": the first one reports.
ReportDefault ==
    /\ pc = "report_default"
    /\ \E ok \in BOOLEAN :
         runResult' = IF ok THEN NoError ELSE ReportError
    /\ reports' = Append(reports, <<1, traceResult.t>>)
    /\ pc' = "done"
    /\ UNCHANGED <<branchVars, tracerVars, configs, ci, traceVars, traceResult, lres, launchVars,
                   collectVars, ri, reported, histVars>>

(* ------------- main.rs: the traced child, as the kernel sees it -------- *)

\* Addresses of the child's text that a trace may name; 0 is any other place.
Addrs == 1..MaxTraces
Elsewhere == 0

\* The word the program has at an address before anyone writes there.
OrigWord(a) == 100 + a

\* PTRACE_POKETEXT's data argument, main.rs line 137: ptr::null_mut().
PokeData == 0

\* st: running, stopped (by sig at address at), zombie (ended by how with
\* code, not yet waited for) or reaped; pending: a state change that no
\* waitpid has reported yet.
ChildState(st, sig, at, how, code, pending) ==
    [st |-> st, sig |-> sig, at |-> at, how |-> how, code |-> code,
     pending |-> pending]
ChildRunning == ChildState("running", "", Elsewhere, "", 0, FALSE)

\* The tracer is not running (the driver of lib.rs is).
TracerIdle ==
    /\ tpc = "idle"
    /\ traces_main = <<>>
    /\ pi = 1
    /\ child = ChildRunning
    /\ mem = [a \in Addrs |-> OrigWord(a)]
    /\ initCalls = <<>>
    /\ seen = [first |-> "", last |-> ""]
    /\ trapResumed = {}

\* main(), lines 105-108: the child is forked and collect_coverage is called.
TracerInit ==
    /\ tpc = "generate"
    /\ traces_main = <<>>
    /\ pi = 1
    /\ child = ChildRunning
    /\ mem = [a \in Addrs |-> OrigWord(a)]
    /\ initCalls = <<>>
    /\ seen = [first |-> "", last |-> ""]
    /\ trapResumed = {}

\* The running child stops: the trap after exec or at an address, or the
\* delivery of another signal.
ChildStops ==
    /\ tpc # "idle"
    /\ child.st = "running"
    /\ \E sig \in {"SIGTRAP", "SIGSEGV"}, at \in Addrs \cup {Elsewhere} :
         child' = ChildState("stopped", sig, at, "", 0, TRUE)
    /\ UNCHANGED <<branchVars, driverVars, tpc, traces_main, pi, mem, initCalls, seen,
                   trapResumed>>

\* The running child exits.
ChildExits ==
    /\ tpc # "idle"
    /\ child.st = "running"
    /\ \E code \in ExitCodes :
         child' = ChildState("zombie", "", Elsewhere, "exited", code, TRUE)
    /\ UNCHANGED <<branchVars, driverVars, tpc, traces_main, pi, mem, initCalls, seen,
                   trapResumed>>

\* The child, running or stopped, is killed by a signal.
ChildKilled ==
    /\ tpc # "idle"
    /\ child.st \in {"running", "stopped"}
    /\ child' = ChildState("zombie", "", Elsewhere, "signaled", 0, TRUE)
    /\ UNCHANGED <<branchVars, driverVars, tpc, traces_main, pi, mem, initCalls, seen,
                   trapResumed>>

\* waitpid(test, None) can return: a state change is unreported, or no child
\* is left to wait for.
WaitReturns == child.pending \/ child.st = "reaped"

\* The WaitStatus (or error) waitpid returns.
WaitStatus ==
    IF child.st = "reaped" THEN "ECHILD"
    ELSE IF child.st = "stopped"
      THEN (IF child.sig = "SIGTRAP" THEN "Stopped(SIGTRAP)" ELSE "Stopped(other)")
    ELSE IF child.how = "exited" THEN "Exited"
    ELSE "Signaled"

\* The child once waitpid has returned: the change is reported, a zombie is
\* reaped.
Waited ==
    IF child.st = "zombie" THEN [child EXCEPT !.st = "reaped", !.pending = FALSE]
    ELSE [child EXCEPT !.pending = FALSE]

(* ------------------- main.rs: collect_coverage, lines 125-170 ---------- *)

\* Sequences of distinct addresses.
TraceLists ==
    {t \in SeqsUpTo(Addrs, MaxTraces) : \A i, j \in DOMAIN t : i # j => t[i] # t[j]}

\* main.rs, line 128: the trace list, or the error `?` returns.
GenerateTracerData ==
    /\ tpc = "generate"
    /\ \E generated \in BOOLEAN :
         IF generated
           THEN /\ \E t \in TraceLists :
                     traces_main' = [k \in DOMAIN t |-> [address |-> t[k], hits |-> 0]]
                /\ tpc' = "wait_init"
           ELSE /\ tpc' = "failed"
                /\ UNCHANGED traces_main
    /\ UNCHANGED <<branchVars, driverVars, pi, child, mem, initCalls, seen, trapResumed>>

\* main.rs, lines 130-151: the first wait; a trap stop starts the planting,
\* anything else is printed and the hit loop is entered.
InitBranch(status) == IF status = "Stopped(SIGTRAP)" THEN "plant" ELSE "wait_loop"

\* main.rs, lines 130-131 and 147-150.
WaitInit ==
    /\ tpc = "wait_init"
    /\ WaitReturns
    /\ child' = Waited
    /\ seen' = [seen EXCEPT !.first = WaitStatus]
    /\ tpc' = InitBranch(WaitStatus)
    /\ pi' = 1
    /\ UNCHANGED <<branchVars, driverVars, traces_main, mem, initCalls, trapResumed>>

\* A planting loop that gives up at the first failed write.
PlantNextStopsOnError(i, ok, n) == IF ok THEN i + 1 ELSE n + 1

\* main.rs, lines 135-142: the loop goes on to the next trace whether the
\* write succeeded or not.
PlantNext(i, ok, n) == i + 1

\* main.rs, lines 136-140: PTRACE_POKETEXT at the address of trace pi.  The
\* write fails when the child is gone, and may fail on the address.
Plant ==
    /\ tpc = "plant"
    /\ pi <= Len(traces_main)
    /\ LET a == traces_main[pi].address IN
       \E ok \in (IF child.st = "stopped" THEN BOOLEAN ELSE {FALSE}) :
         /\ mem' = IF ok THEN [mem EXCEPT ![a] = PokeData] ELSE mem
         /\ initCalls' = Append(initCalls, <<"POKETEXT", a, ok>>)
         /\ pi' = PlantNext(pi, ok, Len(traces_main))
    /\ UNCHANGED <<branchVars, driverVars, tpc, traces_main, child, seen, trapResumed>>

\* PTRACE_CONT: the stopped child runs again; on a child that is gone the
\* request fails and .expect() panics.
Cont(c) == IF c.st = "stopped"
             THEN [ok |-> TRUE, child |-> ChildRunning]
             ELSE [ok |-> FALSE, child |-> c]

\* main.rs, lines 143-145: after the planting loop, continue the child.
ContInit ==
    /\ tpc = "plant"
    /\ pi > Len(traces_main)
    /\ child' = Cont(child).child
    /\ tpc' = IF Cont(child).ok THEN "wait_loop" ELSE "panicked"
    /\ initCalls' = Append(initCalls, <<"CONT", Elsewhere, Cont(child).ok>>)
    /\ UNCHANGED <<branchVars, driverVars, traces_main, pi, mem, seen, trapResumed>>

\* main.rs, lines 154-167: what the hit loop does with a wait status: a trap
\* stop is continued, Exited breaks, anything else goes round again.
LoopBranch(status) ==
    IF status = "Stopped(SIGTRAP)" THEN "cont_hit"
    ELSE IF status = "Exited" THEN "done"
    ELSE "wait_loop"

\* main.rs, lines 153-167: one wait of the hit loop.
WaitLoop ==
    /\ tpc = "wait_loop"
    /\ WaitReturns
    /\ child' = Waited
    /\ seen' = [seen EXCEPT !.last = WaitStatus]
    /\ tpc' = LoopBranch(WaitStatus)
    /\ UNCHANGED <<branchVars, driverVars, traces_main, pi, mem, initCalls, trapResumed>>

\* The addresses of the trace list.
TraceAddrs == {traces_main[k].address : k \in DOMAIN traces_main}

\* main.rs, lines 156-159: "Hit an instrumentation point": the child is
\* continued; the trace list and the child's text are left as they are.
ContHit ==
    /\ tpc = "cont_hit"
    /\ child' = Cont(child).child
    /\ tpc' = IF Cont(child).ok THEN "wait_loop" ELSE "panicked"
    /\ trapResumed' = IF Cont(child).ok /\ child.at \in TraceAddrs
                        THEN trapResumed \cup {child.at}
                        ELSE trapResumed
    /\ UNCHANGED <<branchVars, driverVars, traces_main, pi, mem, initCalls, seen>>

(* ------------------- branching/mod.rs: the queries --------------------- *)

\* One query is made of a context, so that its answer can be read off call.

\* LineRange::contains(line) is called on some range.
CallContains ==
    /\ call = NoCall
    /\ \E r \in LineRanges, line \in BranchLines :
         call' = [fn |-> "contains", range |-> r, line |-> line,
                  answer |-> Contains(r, line)]
    /\ UNCHANGED <<driverVars, tracerVars, context, context0>>

\* BranchAnalysis::is_branch(line) is called on the analysis of a file.
CallAnalysisIsBranch ==
    /\ call = NoCall
    /\ \E p \in DOMAIN context.files, line \in BranchLines :
         call' = [fn |-> "analysis", path |-> p, line |-> line,
                  answer |-> IsBranch(context.files[p], line)]
    /\ UNCHANGED <<driverVars, tracerVars, context, context0>>

\* BranchContext::is_branch(path, line) is called; &self leaves the context
\* as it is.
CallContextIsBranch ==
    /\ call = NoCall
    /\ \E p \in Paths, line \in BranchLines :
         call' = [fn |-> "context", path |-> p, line |-> line,
                  answer |-> ContextIsBranch(context, p, line)]
    /\ UNCHANGED <<driverVars, tracerVars, context, context0>>

(* --------------------------- the driver's runs ------------------------- *)

vars == <<driverVars, tracerVars, branchVars>>

Init == DriverInit /\ TracerIdle /\ BranchIdle

Next ==
    \/ TraceSkipReport
    \/ TraceLaunch
    \/ GetTests
    \/ LaunchNextExe
    \/ GetTestCoverage
    \/ ExecuteTest
    \/ GenerateTracemap
    \/ Step
    \/ CollectReturn
    \/ LaunchFinish
    \/ TraceLaunched
    \/ TraceFinish
    \/ Run
    \/ ReportSingle
    \/ ReportLoop
    \/ ReportLoopEnd
    \/ ReportDefault

Spec == Init /\ [][Next]_vars

(* --------------------------- the tracer's runs ------------------------- *)

TracerNext ==
    \/ ChildStops
    \/ ChildExits
    \/ ChildKilled
    \/ GenerateTracerData
    \/ WaitInit
    \/ Plant
    \/ ContInit
    \/ WaitLoop
    \/ ContHit

InitTracer == DriverIdle /\ TracerInit /\ BranchIdle

SpecTracer == InitTracer /\ [][TracerNext]_vars

(* ----------------------- the branch context's runs --------------------- *)

BranchNext ==
    \/ CallContains
    \/ CallAnalysisIsBranch
    \/ CallContextIsBranch

InitBranching == DriverIdle /\ TracerIdle /\ BranchInit

SpecBranch == InitBranching /\ [][BranchNext]_vars

(* ------------------------- properties of the driver -------------------- *)

\* trace() has returned.
TraceReturned == traceResult.err # Pending

\* The indices of the configurations 1..n that are not named "report", in
\* list order.
RECURSIVE NonReportUpTo(_)
NonReportUpTo(n) ==
    IF n = 0 THEN <<>>
    ELSE IF configs[n].name # "report" THEN Append(NonReportUpTo(n - 1), n)
    ELSE NonReportUpTo(n - 1)

\* The merge of the trace maps of the successful launches among the first n.
RECURSIVE MergedOk(_)
MergedOk(n) ==
    IF n = 0 THEN NewTraceMap
    ELSE IF launchLog[n].ok THEN Merge(MergedOk(n - 1), launchLog[n].t)
    ELSE MergedOk(n - 1)

\* C1: trace() returns a failure whenever some traced test process exited
\* with a non-zero code, also when that process's configuration later aborted
\* with an error on another executable.
C1_NonZeroExitFailsTrace ==
    (TraceReturned /\ nonZeroExit) => ~traceResult.ok

\* C2: when launch_tarpaulin failed for some configuration, trace() returns
\* the first remembered failure, and never Ok.
C2_RememberedFailureReturned ==
    (TraceReturned /\ failure # NoError) => traceResult = ErrRes(failure)

\* C3: a failing configuration never stops the loop of trace(): the
\* configurations not named "report" are attempted once each, in list order,
\* whatever the earlier ones returned, and the run-level trace map is the merge
\* of the maps of all the successful ones (deduplicated once trace() returns).
C3_EveryConfigAttempted ==
    /\ ci <= Len(configs) + 1
    /\ [k \in 1..Len(launchLog) |-> launchLog[k].cfg] = NonReportUpTo(ci - 1)
    /\ tracemap = IF TraceReturned THEN Dedup(MergedOk(Len(launchLog)))
                  ELSE MergedOk(Len(launchLog))
    /\ TraceReturned => ci = Len(configs) + 1

\* C3's case: the first configuration failed, the second one was still traced
\* and its hit is in the map trace() deduplicated.
C3_Witness ==
    /\ TraceReturned
    /\ Len(launchLog) = 2
    /\ ~launchLog[1].ok
    /\ launchLog[2].ok
    /\ launchLog[2].t[1] = 1
    /\ tracemap[1] = 1

\* C4: a run() over a non-empty configuration list in which some test
\* executable exited non-zero has called report_coverage when it returns, and
\* it returns a failure.
C4_FailedRunStillReports ==
    (pc = "done" /\ Len(configs) > 0 /\ nonZeroExit)
        => (Len(reports) >= 1 /\ runResult # NoError)

\* C9: collect_coverage steps only from unfinished states; it returns Ok only
\* once a step has returned a finished state, with End's code as the exit code;
\* and a step's error ends the call at once, as an error.
C9_StepsUntilFinished ==
    /\ pc = "step" => (~IsFinished(state) /\ ~stepErr)
    /\ pc = "collected" =>
         /\ IsFinished(state)
         /\ ~stepErr
         /\ state.kind = "End" => ret_code = state.code
    /\ stepErr => (pc = "launch_return" /\ ~lres.ok
                   /\ lres.err = WrapTestCoverage(StepError))

\* C9's case: the loop has ended on End(1) after a hit, with exit code 1.
C9_Witness ==
    /\ pc = "collected"
    /\ state = TState("End", 1)
    /\ ret_code = 1
    /\ traces[1] = 1

\* C10: when cargo::get_tests fails, launch_tarpaulin returns that error as it
\* is, at once and without having forked a child.
C10_BuildFailureUnchanged ==
    cur.build \in BuildErrors =>
        /\ pc = "launch_return"
        /\ lres = ErrRes(cur.build)
        /\ ~cur.forked

\* C10's case: get_tests failed for the second configuration, after a first
\* configuration that forked.
C10_Witness ==
    /\ pc = "launch_return"
    /\ ci = 2
    /\ cur.build = <<"BuildFailure", "manifest">>
    /\ lres.err = <<"BuildFailure", "manifest">>
    /\ nonZeroExit

\* What C11 asks of one step of the driver.
C11_Step ==
    /\ (pc = "trace_loop" /\ ci <= Len(configs) /\ configs[ci].name = "report")
         => /\ pc' = "trace_loop"
            /\ ci' = ci + 1
            /\ UNCHANGED <<tracemap, ret, failure, launchLog, cur, nonZeroExit>>
    /\ reports' # reports
         => /\ [k \in 1..Len(launchLog) |-> launchLog[k].cfg]
                  = NonReportUpTo(Len(configs))
            /\ reports'[Len(reports')][2] = Dedup(MergedOk(Len(launchLog)))

\* C11: a configuration named "report" is a report-only pass: trace() goes
\* past it without building, forking or tracing, and leaves the run-level map,
\* the return code and the remembered failure as they are; the map handed to
\* report_coverage is the (deduplicated) merge of the maps of all the other
\* configurations that were launched successfully.
C11_ReportOnlyPass == [][C11_Step]_vars

\* C11's case: a "report" configuration was skipped, the other one was traced
\* with a hit, and the report configuration has reported the combined map.
C11_Witness ==
    /\ Len(configs) = 2
    /\ configs[1].name = "report"
    /\ configs[2].name = "cfg"
    /\ Len(launchLog) = 1
    /\ launchLog[1].cfg = 2
    /\ reports = <<<<1, [l \in Lines |-> 1]>>>>
\* C12: the run-level trace map is deduplicated exactly once, by the time
\* trace() returns and so before any report_coverage call gets it, and every
\* reported map is a deduplicated one; the map of a launch_tarpaulin call is
\* deduplicated once, when the call returns Ok; nothing is ever merged into
\* a map that has been deduplicated.
C12_DedupOnceAfterMerges ==
    /\ ~mapLog.run.late
    /\ ~mapLog.cfg.late
    /\ mapLog.run.dedups = IF TraceReturned THEN 1 ELSE 0
    /\ mapLog.cfg.dedups = IF pc = "launch_return" /\ lres.ok THEN 1 ELSE 0
    /\ Len(reports) > 0 => TraceReturned
    /\ \A k \in 1..Len(reports) :
         /\ reports[k][2] = tracemap
         /\ reports[k][2] = Dedup(reports[k][2])

\* C12's case: two configurations were merged into the run-level map, each
\* with a hit on the same line, and the map was reported with one hit.
C12_Witness ==
    /\ Len(launchLog) = 2
    /\ launchLog[1].ok /\ launchLog[1].t[1] = 1
    /\ launchLog[2].ok /\ launchLog[2].t[1] = 1
    /\ MergedOk(2)[1] = 2
    /\ Len(reports) > 0
    /\ reports[1][2][1] = 1
    /\ mapLog.run = [dedups |-> 1, late |-> FALSE]

\* C13: at every point of a run at most one forked test process has not
\* been waited for, and none is left once get_test_coverage has returned.
C13_ChildrenReaped ==
    /\ unreaped <= 1
    /\ pc \notin {"generate_tracemap", "step"} => unreaped = 0

\* launch_tarpaulin, line 98, written out for executable e of the call in
\* progress.
SecondTraceDue(e) == configs[ci].run_ignored /\ executables[e].run_type = "Tests"

\* C16: the get_test_coverage calls of a launch_tarpaulin call go through the
\* executables in order, the normal trace of each first; a trace with the
\* ignored flag comes only right after the normal trace of the same executable
\* and only when run_ignored is set and the run type is Tests; when that holds
\* and the normal trace returned Ok, the next call is that second trace, before
\* the next executable and before the loop ends.
C16_IgnoredTraceSecond ==
    LET calls == cur.calls
        n == Len(cur.calls) IN
    /\ \A k \in 1..n :
         LET e == calls[k][1] IN
         /\ e \in 1..Len(executables)
         /\ IF calls[k][2]
              THEN k > 1 /\ calls[k - 1] = <<e, FALSE>> /\ SecondTraceDue(e)
              ELSE IF k = 1 THEN e = 1
              ELSE /\ e = calls[k - 1][1] + 1
                   /\ calls[k - 1][2] \/ ~SecondTraceDue(e - 1)
    /\ pc = "exe_loop" =>
         IF n = 0 THEN ei = 1
         ELSE /\ ei = calls[n][1] + 1
              /\ calls[n][2] \/ ~SecondTraceDue(calls[n][1])

\* C16's case: with run_ignored set, a Tests executable was traced twice and
\* the Benchmarks executable after it once, and the loop has ended.
C16_Witness ==
    /\ pc = "exe_loop"
    /\ ei = 3
    /\ configs[ci].run_ignored
    /\ executables = <<[run_type |-> "Tests"], [run_type |-> "Benchmarks"]>>
    /\ cur.calls = <<<<1, FALSE>>, <<1, TRUE>>, <<2, FALSE>>>>

\* What C18 asks of one step of the driver.
C18_Step ==
    (pc = "launch_return" /\ ~lres.ok)
        => /\ lres.t = NewTraceMap
           /\ lres.code = 0
           /\ tracemap' = tracemap
           /\ ret' = ret
           /\ ~launchLog'[Len(launchLog')].ok
           /\ launchLog'[Len(launchLog')].t = NewTraceMap

\* C18: when launch_tarpaulin returns an error, nothing of that configuration
\* reaches trace(): the error carries neither traces nor an exit code, also
\* when executables of the configuration were traced successfully before the
\* failure, and trace() leaves its trace map and its return code as they are.
C18_FailedConfigLeavesNothing == [][C18_Step]_vars

\* C18's case: the first executable of the only launch exited non-zero, the
\* trace of the next one failed, and trace() has gone on with an empty map
\* and return code 0.
C18_Witness ==
    /\ pc = "trace_loop"
    /\ ci = 2
    /\ Len(launchLog) = 1
    /\ ~launchLog[1].ok
    /\ nonZeroExit
    /\ failure = WrapTestCoverage(StepError)
    /\ tracemap = NewTraceMap
    /\ ret = 0

\* What C19 asks of one step of the driver: a get_test_coverage call that
\* comes back to launch_tarpaulin's loop without a fork, and the return of
\* launch_tarpaulin when no call forked.
C19_Step ==
    /\ (pc = "get_test_coverage" /\ pc' \in {"get_test_coverage", "exe_loop"})
         => /\ result' = result
            /\ return_code' = return_code
            /\ cur'.forked = cur.forked
            /\ unreaped' = unreaped
    /\ (pc' = "launch_return" /\ lres'.ok /\ ~cur'.forked)
         => lres' = OkRes(NewTraceMap, 0)

\* C19: a get_test_coverage call for a path that does not exist returns
\* Ok(None) without a fork and launch_tarpaulin leaves its trace map and its
\* return code as they are; a launch_tarpaulin call all of whose executables
\* are missing returns Ok with an empty map and code 0.
C19_MissingExecutableSkipped == [][C19_Step]_vars

\* C19's case: the second configuration's loop has ended after two calls
\* that found no file, with an empty map and code 0, after a first
\* configuration that returned Ok.
C19_Witness ==
    /\ pc = "exe_loop"
    /\ ci = 2
    /\ ei = 3
    /\ Len(executables) = 2
    /\ result = NewTraceMap
    /\ return_code = 0
    /\ ~cur.forked
    /\ Len(cur.calls) = 2
    /\ Len(launchLog) = 1
    /\ launchLog[1].ok
    /\ tracemap = NewTraceMap

\* The indices of the configurations 1..n that are named "report", in list
\* order.
RECURSIVE ReportUpTo(_)
ReportUpTo(n) ==
    IF n = 0 THEN <<>>
    ELSE IF configs[n].name = "report" THEN Append(ReportUpTo(n - 1), n)
    ELSE ReportUpTo(n - 1)

\* The configurations C20 names for the report_coverage calls of run().
ReportsDue ==
    IF Len(configs) = 0 THEN <<>>
    ELSE IF Len(configs) = 1 THEN <<1>>
    ELSE IF ReportUpTo(Len(configs)) # <<>> THEN ReportUpTo(Len(configs))
    ELSE <<1>>

\* The configurations of the report_coverage calls made so far.
ReportsMade == [k \in 1..Len(reports) |-> reports[k][1]]

\* C20 as stated: when run() has returned after a successful trace(), it has
\* called report_coverage with each of the configurations named for the case,
\* always with trace()'s map; with an empty list it made no call and returned
\* Ok.
C20_ReportsAllDue ==
    (pc = "done" /\ traceResult.ok) =>
        /\ ReportsMade = ReportsDue
        /\ \A k \in 1..Len(reports) : reports[k][2] = traceResult.t
        /\ Len(configs) > 0 => Len(reports) >= 1
        /\ Len(configs) = 0 => runResult = NoError

\* C20, amended: after a successful trace() the report_coverage calls go
\* through the configurations named for the case, in list order and always
\* with trace()'s map; the first call that returns an error ends run() with
\* that error, the configurations after it are not reported; run() returns Ok
\* exactly when every call was made and returned Ok.
C20_ReportsDueUntilError ==
    /\ Len(reports) <= Len(ReportsDue)
    /\ ReportsMade = SubSeq(ReportsDue, 1, Len(reports))
    /\ \A k \in 1..Len(reports) : traceResult.ok /\ reports[k][2] = traceResult.t
    /\ (pc = "done" /\ traceResult.ok) =>
         /\ runResult \in {NoError, ReportError}
         /\ runResult = NoError => ReportsMade = ReportsDue
         /\ runResult = ReportError => Len(reports) >= 1
         /\ Len(configs) > 0 => Len(reports) >= 1
         /\ Len(configs) = 0 => runResult = NoError

\* C20's case: of two configurations named "report" the first one's report
\* failed, and run() returned that error without the second report.
C20_Witness ==
    /\ pc = "done"
    /\ traceResult.ok
    /\ ReportsDue = <<1, 2>>
    /\ ReportsMade = <<1>>
    /\ runResult = ReportError

(* ------------------------- properties of the tracer -------------------- *)

\* The first wait returned a trap stop.
InitTrap == seen.first = "Stopped(SIGTRAP)"

\* The planting requests for the first n traces, in list order.
Pokes(n) == [k \in 1..n |-> <<"POKETEXT", traces_main[k].address>>]

\* The requests of a call history, without their outcomes.
Requests(calls) == [k \in DOMAIN calls |-> <<calls[k][1], calls[k][2]>>]

\* C5: the hit loop ends when the child ends: once a wait of the loop has
\* reported the child Exited or Signaled (killed by a signal), the tracer is
\* out of the loop.
C5_LoopEndsWhenChildEnds ==
    seen.last \in {"Exited", "Signaled"} => tpc = "done"

\* C6: the tracer is never in a wait while the child sits in a stop by a
\* signal other than the trap that the tracer has already been told of and has
\* not answered by resuming the child.
C6_NeverWaitsOnStoppedChild ==
    ~(/\ tpc \in {"wait_init", "wait_loop"}
      /\ child.st = "stopped"
      /\ child.sig # "SIGTRAP"
      /\ ~child.pending)

\* C7: after the first trap stop the tracer requests a write at the address of
\* every trace, in list order and whatever the earlier writes returned, before
\* it requests the one continue that resumes the child; when the first stop is
\* no trap it requests nothing.
C7_PlantsAllThenContinues ==
    /\ tpc = "plant" =>
         /\ pi <= Len(traces_main) + 1
         /\ Requests(initCalls) = Pokes(pi - 1)
    /\ (InitTrap /\ tpc # "plant") =>
         /\ Requests(initCalls)
              = Pokes(Len(traces_main)) \o << <<"CONT", Elsewhere>> >>
         /\ ~initCalls[Len(initCalls)][3] => tpc = "panicked"
    /\ ~InitTrap => initCalls = <<>>

\* C7's case: the write at the first of two addresses failed, the second was
\* still written, and the child was then continued.
C7_Witness ==
    /\ tpc = "wait_loop"
    /\ Len(traces_main) = 2
    /\ Len(initCalls) = 3
    /\ ~initCalls[1][3]
    /\ initCalls[2][3]
    /\ initCalls[3][3]
    /\ mem[traces_main[1].address] = OrigWord(traces_main[1].address)
    /\ mem[traces_main[2].address] = PokeData

\* C8: whenever the child has been resumed from a trap stop at a trace
\* address, that trace's hit count has been incremented and the child's text
\* holds the original word there again.
C8_HitCountedAndWordRestored ==
    \A k \in DOMAIN traces_main :
        LET a == traces_main[k].address IN
        a \in trapResumed =>
            /\ traces_main[k].hits >= 1
            /\ mem[a] = OrigWord(a)

(* --------------------- properties of the branch context ---------------- *)

\* C14: LineRange::contains(line) answers true exactly when
\* start <= line < end: start and end - 1 are contained when start < end, end
\* never is, and a range with start >= end contains no line.
C14_ContainsHalfOpen ==
    call.fn = "contains" =>
        LET r == call.range
            l == call.line IN
        /\ call.answer = (r.start <= l /\ l < r.end)
        /\ (r.start < r.end /\ l \in {r.start, r.end - 1}) => call.answer
        /\ l = r.end => ~call.answer
        /\ r.start >= r.end => ~call.answer

\* C14's case: the last line of a range of two lines was asked for.
C14_Witness ==
    /\ call.fn = "contains"
    /\ call.range = [start |-> 0, end |-> 2]
    /\ call.line = 1
    /\ call.answer

\* C15: BranchAnalysis::is_branch(line) answers true exactly when some key
\* range of the map contains the line, so never for an empty map or for a line
\* outside every key; the arms' ranges in the values play no part.
C15_IsBranchByKeys ==
    call.fn = "analysis" =>
        LET keys == DOMAIN context.files[call.path].branches IN
        /\ call.answer = (\E k \in keys : k.start <= call.line /\ call.line < k.end)
        /\ keys = {} => ~call.answer

\* C15's case: a map of two keys answered no for a line outside both keys,
\* a line that the arms' range of its values does contain.
C15_Witness ==
    /\ call.fn = "analysis"
    /\ call.path = "a.rs"
    /\ DOMAIN context.files["a.rs"].branches
         = {[start |-> 0, end |-> 1], [start |-> 2, end |-> 2]}
    /\ \A k \in DOMAIN context.files["a.rs"].branches :
         Len(context.files["a.rs"].branches[k].ranges) = 1
    /\ call.line = 1
    /\ ~call.answer

\* C17: BranchContext::is_branch(path, line) answers false when the path has
\* no entry, and otherwise what BranchAnalysis::is_branch(line) of the path's
\* entry answers; the context is never modified.
C17_ContextDelegates ==
    /\ context = context0
    /\ call.fn = "context" =>
         IF call.path \in DOMAIN context.files
           THEN call.answer =
                  (\E k \in DOMAIN context.files[call.path].branches :
                      k.start <= call.line /\ call.line < k.end)
           ELSE ~call.answer

\* C17's case: a path without an entry was asked for, in a context whose other
\* file has a branch at that line.
C17_Witness ==
    /\ call.fn = "context"
    /\ call.path = "c.rs"
    /\ ~call.answer
    /\ "b.rs" \in DOMAIN context.files
    /\ IsBranch(context.files["b.rs"], call.line)

====
